---- MODULE Spec2Model ----
(***************************************************************************)
(* Persistence layer of the treat catalog: the TreatDatabase interface     *)
(* (treats.go) and its two implementations, memoryDB (mutex-guarded map    *)
(* with counter ids) and firestoreDB (adapter over Cloud Firestore).       *)
(*                                                                         *)
(* Go strings are sequences of byte codes, so that strconv.FormatInt and   *)
(* the byte-wise string comparison used for sorting are computed, not      *)
(* assumed.  memoryDB stores *Treat pointers: the model keeps a heap of    *)
(* Treat objects and the map holds addresses, so a caller's object and the *)
(* stored record are the same object, as in the code.  Objects the map no  *)
(* longer references are dropped from the heap: a caller that still holds  *)
(* one and passes it in again is the same input as a new object with the   *)
(* same fields.                                                            *)
(*                                                                         *)
(* Every memoryDB method body runs under db.mu, so one method call is one  *)
(* atomic action in Spec.  SpecConc and FairConc take the bodies statement *)
(* by statement, with the mutex, for goroutines calling concurrently;      *)
(* SpecCursor does the same for the cursor loop of firestoreDB.ListTreats. *)
(***************************************************************************)
EXTENDS Integers, Sequences, FiniteSets

VARIABLES
    DB,         \* Treatshelf.DB: which implementation is behind the interface
    treats,     \* memoryDB.treats: Treat ID -> address of the *Treat
    treatsNil,  \* memoryDB.treats == nil (after Close)
    nextID,     \* memoryDB.nextID
    heap,       \* the Treat objects the stored pointers point to
    docs,       \* firestore collection: document id -> document data
    ret,        \* the last call: operation, argument, result, error
    added,      \* history: the ids AddTreat returned, in call order
    deleted,    \* history: the ids DeleteTreat removed successfully
    hist,       \* whether the history of deletions is recorded
    closed,     \* history: memoryDB.Close has been called
    thr,        \* goroutines calling memoryDB: position and locals of each
    mu,         \* memoryDB.mu: 0, or the goroutine that holds it
    entry,      \* history: while mu is held, the store as it was at the Lock
    iter,       \* the call of firestoreDB.ListTreats in progress, step by step
    pair        \* both backends driven by one caller: the ids that correspond
                \* and what the last call returned on each

vars == <<DB, treats, treatsNil, nextID, heap, docs, ret, added, deleted, hist,
          closed, thr, mu, entry, iter, pair>>

memVars == <<treats, treatsNil, nextID, heap>>

\* the state of the calls that are modelled statement by statement
stepVars == <<thr, mu, entry, iter, pair>>

----------------------------------------------------------------------------
(* Bounds *)

\* AddTreat is called while nextID <= MaxID; ids are FormatInt(1..MaxID).
MaxID == 2

\* the number of goroutines that call memoryDB concurrently
NumProcs == 2

----------------------------------------------------------------------------
(* Strings *)

EmptyStr == <<>>

\* "Alpha", "Alp", "Zeta" and two authors, as bytes
Alpha == <<65, 108, 112, 104, 97>>
Alp == <<65, 108, 112>>
Zeta == <<90, 101, 116, 97>>
Ann == <<65, 110, 110>>
Bob == <<66, 111, 98>>

\* strconv.FormatInt(n, 10) for n >= 0
RECURSIVE FormatInt(_)
FormatInt(n) ==
    IF n < 10 THEN <<48 + n>>
    ELSE Append(FormatInt(n \div 10), 48 + (n % 10))

\* Go's s < t on strings: byte-wise lexicographic, a proper prefix is smaller
RECURSIVE StrLess(_, _)
StrLess(s, t) ==
    IF t = <<>> THEN FALSE
    ELSE IF s = <<>> THEN TRUE
    ELSE IF Head(s) # Head(t) THEN Head(s) < Head(t)
    ELSE StrLess(Tail(s), Tail(t))

----------------------------------------------------------------------------
(* Records *)

\* type Treat struct
Treat(id, title, author, date, url, desc) ==
    [ID |-> id, Title |-> title, Author |-> author, PublishedDate |-> date,
     ImageURL |-> url, Description |-> desc]

\* the ids AddTreat can assign within the bound
IDs == {FormatInt(n) : n \in 1..MaxID}

\* the ids a caller can put on a record it passes in
CallerIDs == {EmptyStr} \cup IDs

\* the descriptive fields a caller can put on a record
Fields ==
    { <<Zeta, Ann, EmptyStr>>, <<Alpha, Bob, Alp>> }

\* the Treat values a caller can construct
Inputs ==
    {Treat(id, f[1], f[2], f[3], f[3], f[2]) : id \in CallerIDs, f \in Fields}

\* the Treat values a caller hands to AddTreat: new records (empty ID) and
\* records that carry an ID already
AddInputs == {t \in Inputs : t.ID \in {EmptyStr, FormatInt(1)}}

\* t with its ID field set (t.ID = id)
WithID(t, id) == [t EXCEPT !.ID = id]

\* equality of the five descriptive fields
SameFields(a, b) ==
    /\ a.Title = b.Title
    /\ a.Author = b.Author
    /\ a.PublishedDate = b.PublishedDate
    /\ a.ImageURL = b.ImageURL
    /\ a.Description = b.Description

----------------------------------------------------------------------------
(* Maps and the heap *)

EmptyMap == [k \in {} |-> 0]

\* m[k] = v
Put(m, k, v) == [x \in DOMAIN m \cup {k} |-> IF x = k THEN v ELSE m[x]]

\* delete(m, k)
Remove(m, k) == [x \in DOMAIN m \ {k} |-> m[x]]

Range(m) == {m[k] : k \in DOMAIN m}

\* the address of an object a caller has just constructed; stored objects
\* have the addresses 1..MaxID
NewAddr == 0

\* the heap h with a caller's new object holding the value t
Alloc(h, t) == Put(h, NewAddr, t)

\* the number n whose decimal string is the key k
KeyNum(k) == CHOOSE n \in 1..MaxID : FormatInt(n) = k

Min(S) == CHOOSE x \in S : \A y \in S : x <= y

\* Addresses carry no meaning beyond identity: after each call the objects
\* the map references are renamed to the number of the least key that
\* references them, so that equal object graphs are equal states.
Rep(m, a) == Min({KeyNum(k) : k \in {x \in DOMAIN m : m[x] = a}})

\* the map m over the renamed addresses
NormMap(m) == [k \in DOMAIN m |-> Rep(m, m[k])]

\* the objects of h that the map m references, under the renamed addresses;
\* objects m does not reference are dropped
NormHeap(h, m) ==
    [r \in {Rep(m, a) : a \in Range(m)} |->
        h[CHOOSE a \in Range(m) : Rep(m, a) = r]]

----------------------------------------------------------------------------
(* Iteration and sorting *)

\* the orders in which a range over a map with the keys S can visit them
\* (Go leaves the iteration order of a map unspecified)
Orders(S) ==
    {o \in [1..Cardinality(S) -> S] : \A i, j \in 1..Cardinality(S) : i # j => o[i] # o[j]}

Front(s) == SubSeq(s, 1, Len(s) - 1)

Last(s) == s[Len(s)]

\* the less function with the comparison turned round
TitleLess_Greater(x, y, h) == StrLess(h[y].Title, h[x].Title)

\* the less function handed to sort.Slice: treats[i].Title < treats[j].Title
TitleLess(x, y, h) == StrLess(h[x].Title, h[y].Title)

\* the inner loop of the insertion sort: x, appended to the sorted s, is
\* swapped towards the front while it is less than its predecessor
RECURSIVE InsertLast(_, _, _)
InsertLast(s, x, h) ==
    IF s = <<>> THEN <<x>>
    ELSE IF TitleLess(x, Last(s), h) THEN Append(InsertLast(Front(s), x, h), Last(s))
    ELSE Append(s, x)

\* sort.Slice on the slice s of pointers into h; for the lengths reached here
\* (below 7) sort.Slice is a plain insertion sort
RECURSIVE SortSlice(_, _)
SortSlice(s, h) ==
    IF Len(s) <= 1 THEN s
    ELSE InsertLast(SortSlice(Front(s), h), Last(s), h)

\* the values the pointers of s point to
Deref(s, h) == [i \in 1..Len(s) |-> h[s[i]]]

----------------------------------------------------------------------------
(* Errors: the messages the code builds, without the formatted id *)

NoErr == "nil"
ErrMemGet == "memorydb: treat not found with ID"
ErrMemDeleteUnassigned == "memorydb: treat with unassigned ID passed into DeleteTreat"
ErrMemDeleteMissing == "memorydb: could not delete treat with ID, does not exist"
ErrMemUpdateUnassigned == "memorydb: treat with unassigned ID passed into UpdateTreat"
PanicNilMap == "panic: assignment to entry in nil map"

\* firestoreDB wraps the client's error: fmt.Errorf("<prefix>: %v", err);
\* c is the status of the wrapped error
ErrFsGet(c) == "firestoredb: Get: " \o c
ErrFsCreate(c) == "Create: " \o c
ErrFsDelete(c) == "firestore: Delete: " \o c
ErrFsSet(c) == "firestsore: Set: " \o c
ErrFsList(c) == "firestoredb: could not list books: " \o c

NoArg == "none"

\* the record of a call; up is whether the call reached the backend (a
\* memoryDB call always does)
RetUp(op, arg, out, err, up) ==
    [op |-> op, arg |-> arg, out |-> out, err |-> err, up |-> up]

Ret(op, arg, out, err) == RetUp(op, arg, out, err, TRUE)

----------------------------------------------------------------------------
(* memoryDB *)

\* newMemoryDB
newMemoryDB ==
    /\ treats = EmptyMap
    /\ treatsNil = FALSE
    /\ nextID = 1
    /\ heap = EmptyMap

\* Close that keeps the map
memoryDB_Close_Keep ==
    /\ DB = "memory"
    /\ ret' = Ret("Close", NoArg, NoArg, NoErr)
    /\ closed' = TRUE
    /\ UNCHANGED <<DB, hist, stepVars, memVars, docs, added, deleted>>

\* memoryDB.Close
memoryDB_Close ==
    /\ DB = "memory"
    /\ treats' = EmptyMap
    /\ treatsNil' = TRUE
    /\ heap' = EmptyMap
    /\ ret' = Ret("Close", NoArg, NoArg, NoErr)
    /\ closed' = TRUE
    /\ UNCHANGED <<DB, hist, stepVars, nextID, docs, added, deleted>>

\* memoryDB.GetTreat: the result of the call in the current state
memoryDB_GetTreatResult(id) ==
    IF id \in DOMAIN treats
    THEN [out |-> heap[treats[id]], err |-> NoErr]
    ELSE [out |-> NoArg, err |-> ErrMemGet]

\* memoryDB.GetTreat
memoryDB_GetTreat(id) ==
    /\ DB = "memory"
    /\ ret' = Ret("Get", id, memoryDB_GetTreatResult(id).out, memoryDB_GetTreatResult(id).err)
    /\ UNCHANGED <<DB, hist, stepVars, closed, memVars, docs, added, deleted>>

\* AddTreat deriving the id from the size of the map instead of the counter
memoryDB_AddTreat_LenID(t, h) ==
    LET id == FormatInt(Cardinality(DOMAIN treats) + 1)
        h1 == [h EXCEPT ![t] = WithID(h[t], id)]
    IN  /\ DB = "memory"
        /\ nextID <= MaxID
        /\ ~treatsNil
        /\ treats' = NormMap(Put(treats, id, t))
        /\ heap' = NormHeap(h1, Put(treats, id, t))
        /\ nextID' = nextID + 1
        /\ ret' = Ret("Add", h[t], id, NoErr)
        /\ added' = Append(added, id)
        /\ UNCHANGED <<DB, hist, stepVars, closed, treatsNil, docs, deleted>>

\* AddTreat storing the record without assigning t.ID
memoryDB_AddTreat_KeepID(t, h) ==
    LET id == FormatInt(nextID)
    IN  /\ DB = "memory"
        /\ nextID <= MaxID
        /\ ~treatsNil
        /\ treats' = NormMap(Put(treats, id, t))
        /\ heap' = NormHeap(h, Put(treats, id, t))
        /\ nextID' = nextID + 1
        /\ ret' = Ret("Add", h[t], id, NoErr)
        /\ added' = Append(added, id)
        /\ UNCHANGED <<DB, hist, stepVars, closed, treatsNil, docs, deleted>>

\* memoryDB.AddTreat(t) where t points into the heap h (the store's heap plus,
\* for a new object, the caller's object)
memoryDB_AddTreat(t, h) ==
    LET id == FormatInt(nextID)
        h1 == [h EXCEPT ![t] = WithID(h[t], id)]
    IN  /\ DB = "memory"
        /\ nextID <= MaxID
        /\ IF treatsNil
           THEN /\ ret' = Ret("Add", h[t], NoArg, PanicNilMap)
                /\ heap' = NormHeap(h1, treats)
                /\ UNCHANGED <<treats, treatsNil, nextID, added>>
           ELSE /\ treats' = NormMap(Put(treats, id, t))
                /\ heap' = NormHeap(h1, Put(treats, id, t))
                /\ nextID' = nextID + 1
                /\ ret' = Ret("Add", h[t], id, NoErr)
                /\ added' = Append(added, id)
                /\ UNCHANGED treatsNil
        /\ UNCHANGED <<DB, hist, stepVars, closed, docs, deleted>>

\* DeleteTreat without the check of the empty id
memoryDB_DeleteTreat_NoCheck(id) ==
    /\ DB = "memory"
    /\ IF id \notin DOMAIN treats
       THEN /\ ret' = Ret("Delete", id, NoArg, ErrMemDeleteMissing)
            /\ UNCHANGED <<memVars, deleted>>
       ELSE /\ treats' = NormMap(Remove(treats, id))
            /\ heap' = NormHeap(heap, Remove(treats, id))
            /\ ret' = Ret("Delete", id, NoArg, NoErr)
            /\ deleted' = IF hist THEN deleted \cup {id} ELSE deleted
            /\ UNCHANGED <<treatsNil, nextID>>
    /\ UNCHANGED <<DB, hist, stepVars, closed, docs, added>>

\* DeleteTreat reporting success without removing the entry
memoryDB_DeleteTreat_Keep(id) ==
    /\ DB = "memory"
    /\ IF id = EmptyStr
       THEN ret' = Ret("Delete", id, NoArg, ErrMemDeleteUnassigned)
       ELSE IF id \notin DOMAIN treats
       THEN ret' = Ret("Delete", id, NoArg, ErrMemDeleteMissing)
       ELSE ret' = Ret("Delete", id, NoArg, NoErr)
    /\ UNCHANGED <<DB, hist, stepVars, closed, memVars, docs, added, deleted>>

\* memoryDB.DeleteTreat
memoryDB_DeleteTreat(id) ==
    /\ DB = "memory"
    /\ IF id = EmptyStr
       THEN /\ ret' = Ret("Delete", id, NoArg, ErrMemDeleteUnassigned)
            /\ UNCHANGED <<memVars, deleted>>
       ELSE IF id \notin DOMAIN treats
       THEN /\ ret' = Ret("Delete", id, NoArg, ErrMemDeleteMissing)
            /\ UNCHANGED <<memVars, deleted>>
       ELSE /\ treats' = NormMap(Remove(treats, id))
            /\ heap' = NormHeap(heap, Remove(treats, id))
            /\ ret' = Ret("Delete", id, NoArg, NoErr)
            /\ deleted' = IF hist THEN deleted \cup {id} ELSE deleted
            /\ UNCHANGED <<treatsNil, nextID>>
    /\ UNCHANGED <<DB, hist, stepVars, closed, docs, added>>

\* UpdateTreat without the check of the empty ID
memoryDB_UpdateTreat_NoCheck(t, h) ==
    /\ DB = "memory"
    /\ IF treatsNil
       THEN /\ ret' = Ret("Update", h[t], NoArg, PanicNilMap)
            /\ UNCHANGED memVars
       ELSE /\ treats' = Put(treats, h[t].ID, t)
            /\ heap' = [a \in DOMAIN h \cap Range(treats') |-> h[a]]
            /\ ret' = Ret("Update", h[t], NoArg, NoErr)
            /\ UNCHANGED <<treatsNil, nextID>>
    /\ UNCHANGED <<DB, hist, stepVars, closed, docs, added, deleted>>

\* UpdateTreat that also advances the id counter, as AddTreat does
memoryDB_UpdateTreat_Bump(t, h) ==
    /\ DB = "memory"
    /\ IF h[t].ID = EmptyStr
       THEN /\ ret' = Ret("Update", h[t], NoArg, ErrMemUpdateUnassigned)
            /\ UNCHANGED memVars
       ELSE IF treatsNil
       THEN /\ ret' = Ret("Update", h[t], NoArg, PanicNilMap)
            /\ UNCHANGED memVars
       ELSE /\ treats' = NormMap(Put(treats, h[t].ID, t))
            /\ heap' = NormHeap(h, Put(treats, h[t].ID, t))
            /\ nextID' = nextID + 1
            /\ ret' = Ret("Update", h[t], NoArg, NoErr)
            /\ UNCHANGED treatsNil
    /\ UNCHANGED <<DB, hist, stepVars, closed, docs, added, deleted>>

\* memoryDB.UpdateTreat(t) where t points into the heap h
memoryDB_UpdateTreat(t, h) ==
    /\ DB = "memory"
    /\ IF h[t].ID = EmptyStr
       THEN /\ ret' = Ret("Update", h[t], NoArg, ErrMemUpdateUnassigned)
            /\ UNCHANGED memVars
       ELSE IF treatsNil
       THEN /\ ret' = Ret("Update", h[t], NoArg, PanicNilMap)
            /\ UNCHANGED memVars
       ELSE /\ treats' = NormMap(Put(treats, h[t].ID, t))
            /\ heap' = NormHeap(h, Put(treats, h[t].ID, t))
            /\ ret' = Ret("Update", h[t], NoArg, NoErr)
            /\ UNCHANGED <<treatsNil, nextID>>
    /\ UNCHANGED <<DB, hist, stepVars, closed, docs, added, deleted>>

\* memoryDB.ListTreats: the result of the call in the current state, the
\* map visited in the order o
memoryDB_ListTreatsResult(o) ==
    [out |-> Deref(SortSlice([i \in 1..Len(o) |-> treats[o[i]]], heap), heap),
     err |-> NoErr]

\* memoryDB.ListTreats
memoryDB_ListTreats(o) ==
    /\ DB = "memory"
    /\ ret' = Ret("List", NoArg, memoryDB_ListTreatsResult(o).out,
                  memoryDB_ListTreatsResult(o).err)
    /\ UNCHANGED <<DB, hist, stepVars, closed, memVars, docs, added, deleted>>

\* A caller assigns to the fields of a Treat the store holds: AddTreat and
\* UpdateTreat keep the caller's pointer, GetTreat and ListTreats hand the
\* stored pointer out.
CallerWrite(a, t) ==
    /\ DB = "memory"
    /\ heap' = [heap EXCEPT ![a] = t]
    /\ ret' = Ret("Write", a, NoArg, NoErr)
    /\ UNCHANGED <<DB, hist, stepVars, closed, treats, treatsNil, nextID, docs, added, deleted>>

----------------------------------------------------------------------------
(* The Firestore client, as firestoreDB uses it.  up is whether the call     *)
(* reaches the service; each result is [docs, out, status].                  *)

OK == "OK"
Unavailable == "Unavailable"
InvalidArgument == "InvalidArgument"
NotFound == "NotFound"
AlreadyExists == "AlreadyExists"

\* why the service refuses a call on the document id, or OK
Refusal(id, up) ==
    IF ~up THEN Unavailable
    ELSE IF id = EmptyStr THEN InvalidArgument
    ELSE OK

\* Collection(c).Doc(id).Get(ctx)
DocGet(d, id, up) ==
    IF Refusal(id, up) # OK THEN [docs |-> d, out |-> NoArg, status |-> Refusal(id, up)]
    ELSE IF id \notin DOMAIN d THEN [docs |-> d, out |-> NoArg, status |-> NotFound]
    ELSE [docs |-> d, out |-> d[id], status |-> OK]

\* ref.Create(ctx, t): fails when the document exists
DocCreate(d, id, t, up) ==
    IF Refusal(id, up) # OK THEN [docs |-> d, out |-> NoArg, status |-> Refusal(id, up)]
    ELSE IF id \in DOMAIN d THEN [docs |-> d, out |-> NoArg, status |-> AlreadyExists]
    ELSE [docs |-> Put(d, id, t), out |-> NoArg, status |-> OK]

\* Collection(c).Doc(id).Set(ctx, t): overwrites or creates the document
DocSet(d, id, t, up) ==
    IF Refusal(id, up) # OK THEN [docs |-> d, out |-> NoArg, status |-> Refusal(id, up)]
    ELSE [docs |-> Put(d, id, t), out |-> NoArg, status |-> OK]

\* Collection(c).Doc(id).Delete(ctx): no error when the document is absent
DocDelete(d, id, up) ==
    IF Refusal(id, up) # OK THEN [docs |-> d, out |-> NoArg, status |-> Refusal(id, up)]
    ELSE [docs |-> Remove(d, id), out |-> NoArg, status |-> OK]

\* Query.OrderBy("Title", firestore.Asc).Documents(ctx): the documents by
\* Title ascending, equal titles by document id ascending
QueryOrderByTitle(d) ==
    LET before(x, y) ==
            \/ StrLess(d[x].Title, d[y].Title)
            \/ d[x].Title = d[y].Title /\ StrLess(x, y)
        o == CHOOSE q \in Orders(DOMAIN d) :
                \A i, j \in 1..Len(q) : i < j => before(q[i], q[j])
    IN  [i \in 1..Len(o) |-> d[o[i]]]

----------------------------------------------------------------------------
(* firestoreDB *)

\* newFirestoreDB, the probe transaction having succeeded
newFirestoreDB == docs = EmptyMap

\* firestoreDB.GetTreat: the result of the call in the current state
firestoreDB_GetTreatResult(id, up) ==
    LET r == DocGet(docs, id, up)
    IN  IF r.status # OK THEN [out |-> NoArg, err |-> ErrFsGet(r.status)]
        ELSE [out |-> r.out, err |-> NoErr]

\* firestoreDB.GetTreat
firestoreDB_GetTreat(id, up) ==
    /\ DB = "firestore"
    /\ ret' = RetUp("Get", id, firestoreDB_GetTreatResult(id, up).out,
                    firestoreDB_GetTreatResult(id, up).err, up)
    /\ UNCHANGED <<DB, hist, stepVars, closed, memVars, docs, added, deleted>>

\* firestoreDB.AddTreat(t), id being the ID of the reference NewDoc returns
firestoreDB_AddTreat(t, id, up) ==
    LET r == DocCreate(docs, id, WithID(t, id), up)
    IN  /\ DB = "firestore"
        /\ docs' = r.docs
        /\ ret' = IF r.status # OK
                  THEN RetUp("Add", t, EmptyStr, ErrFsCreate(r.status), up)
                  ELSE RetUp("Add", t, id, NoErr, up)
        /\ UNCHANGED <<DB, hist, stepVars, closed, memVars, added, deleted>>

\* DeleteTreat that looks the document up first
firestoreDB_DeleteTreat_Lookup(id, up) ==
    LET g == DocGet(docs, id, up)
        r == DocDelete(docs, id, up)
    IN  /\ DB = "firestore"
        /\ docs' = IF g.status # OK THEN docs ELSE r.docs
        /\ ret' = IF g.status # OK
                  THEN RetUp("Delete", id, NoArg, ErrFsDelete(g.status), up)
                  ELSE RetUp("Delete", id, NoArg, NoErr, up)
        /\ UNCHANGED <<DB, hist, stepVars, closed, memVars, added, deleted>>

\* firestoreDB.DeleteTreat
firestoreDB_DeleteTreat(id, up) ==
    LET r == DocDelete(docs, id, up)
    IN  /\ DB = "firestore"
        /\ docs' = r.docs
        /\ ret' = IF r.status # OK
                  THEN RetUp("Delete", id, NoArg, ErrFsDelete(r.status), up)
                  ELSE RetUp("Delete", id, NoArg, NoErr, up)
        /\ UNCHANGED <<DB, hist, stepVars, closed, memVars, added, deleted>>

\* UpdateTreat that calls Create in place of Set
firestoreDB_UpdateTreat_Create(t, up) ==
    LET r == DocCreate(docs, t.ID, t, up)
    IN  /\ DB = "firestore"
        /\ docs' = r.docs
        /\ ret' = IF r.status # OK
                  THEN RetUp("Update", t, NoArg, ErrFsSet(r.status), up)
                  ELSE RetUp("Update", t, NoArg, NoErr, up)
        /\ UNCHANGED <<DB, hist, stepVars, closed, memVars, added, deleted>>

\* firestoreDB.UpdateTreat
firestoreDB_UpdateTreat(t, up) ==
    LET r == DocSet(docs, t.ID, t, up)
    IN  /\ DB = "firestore"
        /\ docs' = r.docs
        /\ ret' = IF r.status # OK
                  THEN RetUp("Update", t, NoArg, ErrFsSet(r.status), up)
                  ELSE RetUp("Update", t, NoArg, NoErr, up)
        /\ UNCHANGED <<DB, hist, stepVars, closed, memVars, added, deleted>>

\* the loop of firestoreDB.ListTreats over the cursor cur: the fail-th call
\* of iter.Next from here returns an error (0: none does); acc is the slice
\* built so far
RECURSIVE ListLoop(_, _, _)
ListLoop(cur, fail, acc) ==
    IF fail = 1 THEN [out |-> <<>>, err |-> ErrFsList(Unavailable)]
    ELSE IF cur = <<>> THEN [out |-> acc, err |-> NoErr]
    ELSE ListLoop(Tail(cur), IF fail = 0 THEN 0 ELSE fail - 1, Append(acc, Head(cur)))

\* firestoreDB.ListTreats: the result of the call in the current state
firestoreDB_ListTreatsResult(fail) == ListLoop(QueryOrderByTitle(docs), fail, <<>>)

\* firestoreDB.ListTreats
firestoreDB_ListTreats(fail) ==
    /\ DB = "firestore"
    /\ ret' = RetUp("List", NoArg, firestoreDB_ListTreatsResult(fail).out,
                    firestoreDB_ListTreatsResult(fail).err, fail = 0)
    /\ UNCHANGED <<DB, hist, stepVars, closed, memVars, docs, added, deleted>>

----------------------------------------------------------------------------
(* Calls in progress *)

Procs == 1..NumProcs

\* a goroutine that is in no call of memoryDB
\* the zero value of Treat
NoTreat == Treat(EmptyStr, EmptyStr, EmptyStr, EmptyStr, EmptyStr, EmptyStr)

\* a goroutine that is in no call of memoryDB.  Of a goroutine in a call: op
\* is the method, id or arg its argument, t the Treat the body works on, out
\* the records and rid the id it returns, err its error
IdleThr ==
    [pc |-> "idle", op |-> NoArg, id |-> EmptyStr, arg |-> NoTreat, t |-> NoTreat,
     out |-> <<>>, rid |-> EmptyStr, err |-> NoErr, held |-> FALSE]

\* no call of firestoreDB.ListTreats is in progress
NoIter ==
    [pc |-> "idle", open |-> FALSE, deferred |-> FALSE, snap |-> <<>>,
     rest |-> <<>>, acc |-> <<>>, out |-> <<>>, err |-> NoErr]

\* no call has been made on the pair of backends: ren maps the ids memoryDB
\* assigned to the ids firestoreDB assigned in the same calls; m and f are
\* the records, the id and the error the last call returned on each
NoPair ==
    [ren |-> EmptyMap, op |-> "New",
     m |-> [out |-> <<>>, rid |-> EmptyStr, err |-> NoErr],
     f |-> [out |-> <<>>, rid |-> EmptyStr, err |-> NoErr]]

\* no call is in progress
NoSteps ==
    /\ pair = NoPair
    /\ thr = [p \in Procs |-> IdleThr]
    /\ mu = 0
    /\ entry = [treats |-> EmptyMap, treatsNil |-> FALSE, nextID |-> 1,
                heap |-> EmptyMap]
    /\ iter = NoIter

----------------------------------------------------------------------------

Init ==
    /\ DB \in {"memory", "firestore"}
    /\ newMemoryDB
    /\ newFirestoreDB
    /\ ret = Ret("New", NoArg, NoArg, NoErr)
    /\ added = <<>>
    /\ deleted = {}
    /\ hist = FALSE
    /\ closed = FALSE
    /\ NoSteps

\* the same program, with the history of deletions recorded
InitHist ==
    /\ DB \in {"memory", "firestore"}
    /\ newMemoryDB
    /\ newFirestoreDB
    /\ ret = Ret("New", NoArg, NoArg, NoErr)
    /\ added = <<>>
    /\ deleted = {}
    /\ hist = TRUE
    /\ closed = FALSE
    /\ NoSteps

Next ==
    \/ memoryDB_Close
    \/ \E id \in CallerIDs : memoryDB_GetTreat(id)
    \/ \E t \in AddInputs : memoryDB_AddTreat(NewAddr, Alloc(heap, t))
    \/ \E a \in DOMAIN heap : memoryDB_AddTreat(a, heap)
    \/ \E id \in CallerIDs : memoryDB_DeleteTreat(id)
    \/ \E t \in Inputs : memoryDB_UpdateTreat(NewAddr, Alloc(heap, t))
    \/ \E a \in DOMAIN heap : memoryDB_UpdateTreat(a, heap)
    \/ \E o \in Orders(DOMAIN treats) : memoryDB_ListTreats(o)
    \/ \E a \in DOMAIN heap, t \in Inputs : CallerWrite(a, t)
    \/ \E id \in CallerIDs, up \in BOOLEAN : firestoreDB_GetTreat(id, up)
    \/ \E t \in AddInputs, id \in IDs, up \in BOOLEAN : firestoreDB_AddTreat(t, id, up)
    \/ \E id \in CallerIDs, up \in BOOLEAN : firestoreDB_DeleteTreat(id, up)
    \/ \E t \in Inputs, up \in BOOLEAN : firestoreDB_UpdateTreat(t, up)
    \/ \E fail \in 0..(Cardinality(DOMAIN docs) + 1) : firestoreDB_ListTreats(fail)

Spec == Init /\ [][Next]_vars

SpecHist == InitHist /\ [][Next]_vars

----------------------------------------------------------------------------
(* firestoreDB.ListTreats statement by statement: iter.open is whether the  *)
(* cursor Documents(ctx) returned has not been stopped, iter.snap the       *)
(* documents the query matched, iter.rest those the cursor has not yet      *)
(* delivered, iter.acc the local slice treats                               *)

\* treats := make([]*Treat, 0); iter := ...Documents(ctx); defer iter.Stop()
firestoreDB_ListTreats_Open ==
    /\ DB = "firestore"
    /\ iter.pc \in {"idle", "returned"}
    /\ iter' = [pc |-> "loop", open |-> TRUE, deferred |-> TRUE,
                snap |-> QueryOrderByTitle(docs), rest |-> QueryOrderByTitle(docs),
                acc |-> <<>>, out |-> <<>>, err |-> NoErr]
    /\ UNCHANGED <<DB, hist, closed, thr, mu, entry, pair, memVars, docs, ret, added, deleted>>

\* one pass of the loop: iter.Next() fails (ok = FALSE), reports
\* iterator.Done, or delivers the next document, which is appended
firestoreDB_ListTreats_Next(ok) ==
    /\ DB = "firestore"
    /\ iter.pc = "loop"
    /\ iter' = IF ~ok
               THEN [iter EXCEPT !.pc = "return", !.out = <<>>,
                                 !.err = ErrFsList(Unavailable)]
               ELSE IF iter.rest = <<>>
               THEN [iter EXCEPT !.pc = "return", !.out = iter.acc, !.err = NoErr]
               ELSE [iter EXCEPT !.rest = Tail(iter.rest),
                                 !.acc = Append(iter.acc, Head(iter.rest))]
    /\ UNCHANGED <<DB, hist, closed, thr, mu, entry, pair, memVars, docs, ret, added, deleted>>

\* return that stops the cursor on the normal path only
firestoreDB_ListTreats_Return_NoDefer ==
    /\ DB = "firestore"
    /\ iter.pc = "return"
    /\ iter' = [iter EXCEPT !.pc = "returned",
                            !.open = IF iter.err = NoErr THEN FALSE ELSE iter.open]
    /\ UNCHANGED <<DB, hist, closed, thr, mu, entry, pair, memVars, docs, ret, added, deleted>>

\* the return of ListTreats: the deferred iter.Stop() runs
firestoreDB_ListTreats_Return ==
    /\ DB = "firestore"
    /\ iter.pc = "return"
    /\ iter' = [iter EXCEPT !.pc = "returned",
                            !.open = IF iter.deferred THEN FALSE ELSE iter.open]
    /\ UNCHANGED <<DB, hist, closed, thr, mu, entry, pair, memVars, docs, ret, added, deleted>>

InitCursor == Init /\ DB = "firestore"

\* ListTreats in steps, among calls that change the collection
NextCursor ==
    \/ \E t \in AddInputs, id \in IDs : firestoreDB_AddTreat(t, id, TRUE)
    \/ \E id \in IDs : firestoreDB_DeleteTreat(id, TRUE)
    \/ firestoreDB_ListTreats_Open
    \/ \E ok \in BOOLEAN : firestoreDB_ListTreats_Next(ok)
    \/ firestoreDB_ListTreats_Return

SpecCursor == InitCursor /\ [][NextCursor]_vars

----------------------------------------------------------------------------
(* What a caller of the TreatDatabase interface observes, on either backend, *)
(* the backend being reachable                                               *)

\* the ids under which a record is stored
Keys == IF DB = "memory" THEN DOMAIN treats ELSE DOMAIN docs

\* the record stored under k
Stored(k) == IF DB = "memory" THEN heap[treats[k]] ELSE docs[k]

\* what GetTreat(id) returns in this state
GetResult(id) ==
    IF DB = "memory" THEN memoryDB_GetTreatResult(id)
    ELSE firestoreDB_GetTreatResult(id, TRUE)

\* what ListTreats can return in this state
ListResults ==
    IF DB = "memory" THEN {memoryDB_ListTreatsResult(o) : o \in Orders(DOMAIN treats)}
    ELSE {firestoreDB_ListTreatsResult(0)}

\* l is in non-decreasing order of Title
SortedByTitle(l) == \A i \in 1..(Len(l) - 1) : ~StrLess(l[i + 1].Title, l[i].Title)

\* l holds the record of each key of K once and nothing else
IsListOf(l, K) ==
    \E o \in Orders(K) : Len(l) = Len(o) /\ \A i \in 1..Len(o) : l[i] = Stored(o[i])

\* the error kinds of the interface: a caller passed an empty id
IsInvalidArgument(e) ==
    e \in {ErrMemDeleteUnassigned, ErrMemUpdateUnassigned, ErrFsSet(InvalidArgument),
           ErrFsDelete(InvalidArgument), ErrFsGet(InvalidArgument)}

\* the error kinds of the interface: no record has the id
IsNotFound(e) == e \in {ErrMemGet, ErrMemDeleteMissing, ErrFsGet(NotFound)}

\* the records of the concrete scenarios, before an id is assigned
ZetaRec == Treat(EmptyStr, Zeta, Ann, EmptyStr, EmptyStr, Ann)
AlphaRec == Treat(EmptyStr, Alpha, Bob, Alp, Alp, Bob)

\* the integer a decimal string denotes
RECURSIVE ParseInt(_)
ParseInt(s) == IF s = <<>> THEN 0 ELSE 10 * ParseInt(Front(s)) + (Last(s) - 48)

----------------------------------------------------------------------------
(* Claims *)

----------------------------------------------------------------------------
(* memoryDB called by goroutines concurrently, statement by statement.      *)
(* thr[p].pc is where goroutine p is: "idle" (in no call), "lock" (blocked  *)
(* in db.mu.Lock() of some method), a statement of a method body, or        *)
(* "return" (at the return, the deferred Unlock not yet run).  A goroutine  *)
(* blocked in Lock has read neither the store nor its argument, so which    *)
(* call it makes is chosen when it acquires mu.  thr[p].held is whether     *)
(* defer db.mu.Unlock() has been registered.  A panic unwinds to the caller *)
(* of the method, running the deferred Unlock on its way.                   *)

\* the store as one value
Store == [treats |-> treats, treatsNil |-> treatsNil, nextID |-> nextID, heap |-> heap]

\* The outcomes of one call of the method op, with the argument id or the
\* new object t, made alone on the store S: the store it leaves, the records
\* out and the id rid it returns, and its error
SeqCall(S, op, id, t) ==
    LET nid == FormatInt(S.nextID)
        put(k, v) ==
            [S EXCEPT !.treats = NormMap(Put(S.treats, k, NewAddr)),
                      !.heap = NormHeap(Alloc(S.heap, v), Put(S.treats, k, NewAddr))]
        remove(k) ==
            [S EXCEPT !.treats = NormMap(Remove(S.treats, k)),
                      !.heap = NormHeap(S.heap, Remove(S.treats, k))]
        result(T, out, rid, err) ==
            {[store |-> T, out |-> out, rid |-> rid, err |-> err]}
    IN  CASE op = "Close" ->
                result([S EXCEPT !.treats = EmptyMap, !.treatsNil = TRUE,
                                 !.heap = EmptyMap], <<>>, EmptyStr, NoErr)
          [] op = "Get" ->
                IF id \in DOMAIN S.treats
                THEN result(S, <<S.heap[S.treats[id]]>>, EmptyStr, NoErr)
                ELSE result(S, <<>>, EmptyStr, ErrMemGet)
          [] op = "Add" ->
                IF S.treatsNil THEN result(S, <<>>, EmptyStr, PanicNilMap)
                ELSE result([put(nid, WithID(t, nid)) EXCEPT !.nextID = S.nextID + 1],
                            <<>>, nid, NoErr)
          [] op = "Delete" ->
                IF id = EmptyStr THEN result(S, <<>>, EmptyStr, ErrMemDeleteUnassigned)
                ELSE IF id \notin DOMAIN S.treats
                THEN result(S, <<>>, EmptyStr, ErrMemDeleteMissing)
                ELSE result(remove(id), <<>>, EmptyStr, NoErr)
          [] op = "Update" ->
                IF t.ID = EmptyStr THEN result(S, <<>>, EmptyStr, ErrMemUpdateUnassigned)
                ELSE IF S.treatsNil THEN result(S, <<>>, EmptyStr, PanicNilMap)
                ELSE result(put(t.ID, t), <<>>, EmptyStr, NoErr)
          [] op = "List" ->
                {[store |-> S,
                  out |-> Deref(SortSlice([i \in 1..Len(o) |-> S.treats[o[i]]], S.heap),
                                S.heap),
                  rid |-> EmptyStr,
                  err |-> NoErr] : o \in Orders(DOMAIN S.treats)}

\* the arguments of the concurrent calls: new objects
ConcAddInputs == {t \in AddInputs : t.Title = Zeta /\ t.ID = EmptyStr}
ConcUpdateInputs == {t \in Inputs : t.Title = Alpha}

\* the variables the concurrent calls leave alone
concFrame == <<DB, hist, docs, ret, deleted, iter, pair>>

\* goroutine p calls a method and reaches db.mu.Lock()
memoryDB_Call(p) ==
    /\ DB = "memory"
    /\ thr[p].pc = "idle"
    /\ thr' = [thr EXCEPT ![p].pc = "lock"]
    /\ UNCHANGED <<concFrame, memVars, mu, entry, added, closed>>

\* DeleteTreat("") and UpdateTreat of a Treat with the empty ID return
\* before db.mu.Lock()
memoryDB_EarlyReturn(p, op, t) ==
    /\ DB = "memory"
    /\ thr[p].pc = "idle"
    /\ \/ op = "Delete" /\ t = NoTreat
       \/ op = "Update" /\ t \in ConcUpdateInputs /\ t.ID = EmptyStr
    /\ thr' = [thr EXCEPT ![p] =
                [IdleThr EXCEPT !.pc = "return", !.op = op, !.arg = t,
                    !.err = IF op = "Delete" THEN ErrMemDeleteUnassigned
                            ELSE ErrMemUpdateUnassigned]]
    /\ UNCHANGED <<concFrame, memVars, mu, entry, added, closed>>

\* the calls that reach db.mu.Lock(), with their arguments
LockedCalls ==
    {<<"Close", EmptyStr, NoTreat>>, <<"List", EmptyStr, NoTreat>>}
        \cup {<<"Get", id, NoTreat>> : id \in CallerIDs}
        \cup {<<"Delete", id, NoTreat>> : id \in IDs}
        \cup {<<"Add", EmptyStr, t>> : t \in ConcAddInputs}
        \cup {<<"Update", EmptyStr, t>> :
                    t \in {u \in ConcUpdateInputs : u.ID # EmptyStr}}

\* Lock that does not wait for mu to be free
memoryDB_Lock_NoWait(p, op, id, t) ==
    /\ DB = "memory"
    /\ thr[p].pc = "lock"
    /\ <<op, id, t>> \in LockedCalls
    /\ op = "Add" => nextID <= MaxID
    /\ mu' = p
    /\ entry' = Store
    /\ thr' = [thr EXCEPT ![p] =
                [IdleThr EXCEPT !.pc = op, !.op = op, !.id = id, !.arg = t,
                                !.held = TRUE]]
    /\ UNCHANGED <<concFrame, memVars, added, closed>>

\* db.mu.Lock(); defer db.mu.Unlock()
memoryDB_Lock(p, op, id, t) ==
    /\ DB = "memory"
    /\ thr[p].pc = "lock"
    /\ <<op, id, t>> \in LockedCalls
    /\ op = "Add" => nextID <= MaxID
    /\ mu = 0
    /\ mu' = p
    /\ entry' = Store
    /\ thr' = [thr EXCEPT ![p] =
                [IdleThr EXCEPT !.pc = op, !.op = op, !.id = id, !.arg = t,
                                !.held = TRUE]]
    /\ UNCHANGED <<concFrame, memVars, added, closed>>

\* goroutine p moves to the return with the result out, rid, err
AtReturn(p, out, rid, err) ==
    thr' = [thr EXCEPT ![p].pc = "return", ![p].out = out, ![p].rid = rid,
                       ![p].err = err]

\* Close: db.treats = nil; return nil
memoryDB_Close_Body(p) ==
    /\ thr[p].pc = "Close"
    /\ treats' = EmptyMap
    /\ treatsNil' = TRUE
    /\ heap' = EmptyMap
    /\ closed' = TRUE
    /\ AtReturn(p, <<>>, EmptyStr, NoErr)
    /\ UNCHANGED <<concFrame, nextID, mu, entry, added>>

\* GetTreat: the lookup and the return of the record or the error
memoryDB_GetTreat_Body(p) ==
    /\ thr[p].pc = "Get"
    /\ IF memoryDB_GetTreatResult(thr[p].id).err = NoErr
       THEN AtReturn(p, <<memoryDB_GetTreatResult(thr[p].id).out>>, EmptyStr, NoErr)
       ELSE AtReturn(p, <<>>, EmptyStr, memoryDB_GetTreatResult(thr[p].id).err)
    /\ UNCHANGED <<concFrame, memVars, mu, entry, added, closed>>

\* AddTreat: t.ID = strconv.FormatInt(db.nextID, 10)
memoryDB_AddTreat_SetID(p) ==
    /\ thr[p].pc = "Add"
    /\ thr' = [thr EXCEPT ![p].pc = "AddStore",
                          ![p].t = WithID(thr[p].arg, FormatInt(nextID))]
    /\ UNCHANGED <<concFrame, memVars, mu, entry, added, closed>>

\* AddTreat: db.treats[t.ID] = t, which panics on the nil map
memoryDB_AddTreat_Store(p) ==
    /\ thr[p].pc = "AddStore"
    /\ IF treatsNil
       THEN /\ AtReturn(p, <<>>, EmptyStr, PanicNilMap)
            /\ UNCHANGED <<treats, heap>>
       ELSE /\ treats' = NormMap(Put(treats, thr[p].t.ID, NewAddr))
            /\ heap' = NormHeap(Alloc(heap, thr[p].t), Put(treats, thr[p].t.ID, NewAddr))
            /\ thr' = [thr EXCEPT ![p].pc = "AddIncr"]
    /\ UNCHANGED <<concFrame, treatsNil, nextID, mu, entry, added, closed>>

\* AddTreat: db.nextID++
memoryDB_AddTreat_Incr(p) ==
    /\ thr[p].pc = "AddIncr"
    /\ nextID' = nextID + 1
    /\ thr' = [thr EXCEPT ![p].pc = "AddReturn"]
    /\ UNCHANGED <<concFrame, treats, treatsNil, heap, mu, entry, added, closed>>

\* AddTreat: return t.ID, nil
memoryDB_AddTreat_Return(p) ==
    /\ thr[p].pc = "AddReturn"
    /\ AtReturn(p, <<>>, thr[p].t.ID, NoErr)
    /\ added' = Append(added, thr[p].t.ID)
    /\ UNCHANGED <<concFrame, memVars, mu, entry, closed>>

\* DeleteTreat: the lookup, and the return of the error when it fails
memoryDB_DeleteTreat_Lookup(p) ==
    /\ thr[p].pc = "Delete"
    /\ IF thr[p].id \notin DOMAIN treats
       THEN AtReturn(p, <<>>, EmptyStr, ErrMemDeleteMissing)
       ELSE thr' = [thr EXCEPT ![p].pc = "DeleteRemove"]
    /\ UNCHANGED <<concFrame, memVars, mu, entry, added, closed>>

\* DeleteTreat: delete(db.treats, id); return nil
memoryDB_DeleteTreat_Remove(p) ==
    /\ thr[p].pc = "DeleteRemove"
    /\ treats' = NormMap(Remove(treats, thr[p].id))
    /\ heap' = NormHeap(heap, Remove(treats, thr[p].id))
    /\ AtReturn(p, <<>>, EmptyStr, NoErr)
    /\ UNCHANGED <<concFrame, treatsNil, nextID, mu, entry, added, closed>>

\* UpdateTreat: db.treats[t.ID] = t, which panics on the nil map; return nil
memoryDB_UpdateTreat_Store(p) ==
    /\ thr[p].pc = "Update"
    /\ IF treatsNil
       THEN /\ AtReturn(p, <<>>, EmptyStr, PanicNilMap)
            /\ UNCHANGED <<treats, heap>>
       ELSE /\ treats' = NormMap(Put(treats, thr[p].arg.ID, NewAddr))
            /\ heap' = NormHeap(Alloc(heap, thr[p].arg),
                                Put(treats, thr[p].arg.ID, NewAddr))
            /\ AtReturn(p, <<>>, EmptyStr, NoErr)
    /\ UNCHANGED <<concFrame, treatsNil, nextID, mu, entry, added, closed>>

\* ListTreats: the range over the map in the order o, the sort, the return
memoryDB_ListTreats_Body(p, o) ==
    /\ thr[p].pc = "List"
    /\ AtReturn(p, memoryDB_ListTreatsResult(o).out, EmptyStr,
                   memoryDB_ListTreatsResult(o).err)
    /\ UNCHANGED <<concFrame, memVars, mu, entry, added, closed>>

\* a return that leaves mu locked when the method returns an error
memoryDB_Return_NoDefer(p) ==
    /\ thr[p].pc = "return"
    /\ mu' = IF thr[p].held /\ thr[p].err = NoErr THEN 0 ELSE mu
    /\ entry' = IF thr[p].held THEN Store ELSE entry
    /\ thr' = [thr EXCEPT ![p] = IdleThr]
    /\ UNCHANGED <<concFrame, memVars, added, closed>>

\* the return of a method: the deferred db.mu.Unlock() runs if it was
\* registered
memoryDB_Return(p) ==
    /\ thr[p].pc = "return"
    /\ mu' = IF thr[p].held THEN 0 ELSE mu
    /\ entry' = IF thr[p].held THEN Store ELSE entry
    /\ thr' = [thr EXCEPT ![p] = IdleThr]
    /\ UNCHANGED <<concFrame, memVars, added, closed>>

\* a step of goroutine p inside a method body
memoryDB_Step(p) ==
    \/ memoryDB_Close_Body(p)
    \/ memoryDB_GetTreat_Body(p)
    \/ memoryDB_AddTreat_SetID(p)
    \/ memoryDB_AddTreat_Store(p)
    \/ memoryDB_AddTreat_Incr(p)
    \/ memoryDB_AddTreat_Return(p)
    \/ memoryDB_DeleteTreat_Lookup(p)
    \/ memoryDB_DeleteTreat_Remove(p)
    \/ memoryDB_UpdateTreat_Store(p)
    \/ \E o \in Orders(DOMAIN treats) : memoryDB_ListTreats_Body(p, o)
    \/ memoryDB_Return(p)

InitConc == Init /\ DB = "memory"

NextConc ==
    \/ \E p \in Procs : memoryDB_Call(p)
    \/ \E p \in Procs, c \in {<<"Delete", NoTreat>>} \cup
                {<<"Update", t>> : t \in ConcUpdateInputs} :
            memoryDB_EarlyReturn(p, c[1], c[2])
    \/ \E p \in Procs, c \in LockedCalls : memoryDB_Lock(p, c[1], c[2], c[3])
    \/ \E p \in Procs : memoryDB_Step(p)

SpecConc == InitConc /\ [][NextConc]_vars

\* calls that between them take every return path of every method: found
\* and not found, the empty id, the nil map
LiveCalls ==
    {c \in LockedCalls : c[2] \in {EmptyStr, FormatInt(1)}
                            /\ c[3].ID \in {EmptyStr, FormatInt(1)}}

NextLive ==
    \/ \E p \in Procs : memoryDB_Call(p)
    \/ \E p \in Procs : memoryDB_EarlyReturn(p, "Delete", NoTreat)
    \/ \E p \in Procs, t \in ConcUpdateInputs : memoryDB_EarlyReturn(p, "Update", t)
    \/ \E p \in Procs, c \in LiveCalls : memoryDB_Lock(p, c[1], c[2], c[3])
    \/ \E p \in Procs : memoryDB_Step(p)

\* The goroutines are scheduled fairly: one that can take a step of a body
\* or return eventually does; sync.Mutex hands the lock to a goroutine that
\* has waited long (starvation mode), so one that keeps finding mu free in
\* Lock eventually acquires it.
FairConc ==
    /\ InitConc
    /\ [][NextLive]_vars
    /\ \A p \in Procs : WF_vars(memoryDB_Step(p))
    /\ \A p \in Procs : SF_vars(\E c \in LiveCalls : memoryDB_Lock(p, c[1], c[2], c[3]))

----------------------------------------------------------------------------
(* One caller driving a memoryDB and a firestoreDB through the same calls,  *)
(* the backend reachable: each call is made on both, with the ids one       *)
(* backend assigned replaced by the ids the other assigned in the same call *)

\* The outcome of one call of the firestoreDB method op, with the argument
\* id or t, on the collection d, the backend reachable: the collection it
\* leaves, the records out and the id rid it returns, and its error.  For
\* AddTreat id is the ID of the reference NewDoc returns.
FsCall(d, op, id, t) ==
    LET result(r, out, rid, wrap(_)) ==
            IF r.status # OK
            THEN [docs |-> r.docs, out |-> <<>>, rid |-> EmptyStr, err |-> wrap(r.status)]
            ELSE [docs |-> r.docs, out |-> out, rid |-> rid, err |-> NoErr]
    IN  CASE op = "Get" ->
                result(DocGet(d, id, TRUE), <<DocGet(d, id, TRUE).out>>, EmptyStr, ErrFsGet)
          [] op = "Add" ->
                result(DocCreate(d, id, WithID(t, id), TRUE), <<>>, id, ErrFsCreate)
          [] op = "Delete" ->
                result(DocDelete(d, id, TRUE), <<>>, EmptyStr, ErrFsDelete)
          [] op = "Update" ->
                result(DocSet(d, t.ID, t, TRUE), <<>>, EmptyStr, ErrFsSet)
          [] op = "List" ->
                [docs |-> d, out |-> ListLoop(QueryOrderByTitle(d), 0, <<>>).out,
                 rid |-> EmptyStr, err |-> ListLoop(QueryOrderByTitle(d), 0, <<>>).err]

\* memoryDB.AddTreat(t) made alone on the store S, t being the stored object
\* at address a after its caller has set its fields to f
SeqAddAgain(S, a, f) ==
    LET nid == FormatInt(S.nextID)
        h1 == [S.heap EXCEPT ![a] = WithID(f, nid)]
        m1 == Put(S.treats, nid, a)
    IN  [store |-> [S EXCEPT !.treats = NormMap(m1), !.heap = NormHeap(h1, m1),
                             !.nextID = S.nextID + 1],
         out |-> <<>>, rid |-> nid, err |-> NoErr]

\* the titles of the documents other than the document k
OtherTitles(k) == {docs[x].Title : x \in DOMAIN docs \ {k}}

\* the call op has returned m on memoryDB and f on firestoreDB; ren are the
\* corresponding ids
PairStep(op, ren, m, f) ==
    /\ DB = "both"
    /\ treats' = m.store.treats
    /\ heap' = m.store.heap
    /\ nextID' = m.store.nextID
    /\ docs' = f.docs
    /\ pair' = [ren |-> ren, op |-> op,
                m |-> [out |-> m.out, rid |-> m.rid, err |-> m.err],
                f |-> [out |-> f.out, rid |-> f.rid, err |-> f.err]]
    /\ UNCHANGED <<DB, hist, closed, treatsNil, thr, mu, entry, iter, ret, added, deleted>>

\* AddTreat of a new object with the fields t; d is the id NewDoc draws, an
\* id it has not drawn before
Pair_AddTreat(t, d) ==
    /\ nextID <= MaxID
    /\ d \notin Range(pair.ren)
    /\ t.Title \notin OtherTitles(EmptyStr)
    /\ \E m \in SeqCall(Store, "Add", EmptyStr, t) :
            PairStep("Add", Put(pair.ren, m.rid, d), m, FsCall(docs, "Add", d, t))

\* AddTreat of an object the caller has passed in or was handed before,
\* after the caller has set its fields to t: on memoryDB it is the stored
\* object at address a
Pair_AddTreatAgain(a, t, d) ==
    /\ nextID <= MaxID
    /\ d \notin Range(pair.ren)
    /\ t.Title \notin OtherTitles(EmptyStr)
    /\ PairStep("Add", Put(pair.ren, SeqAddAgain(Store, a, t).rid, d),
                SeqAddAgain(Store, a, t), FsCall(docs, "Add", d, t))

\* the id on firestoreDB that corresponds to the id i on memoryDB
Ren(ren, i) == IF i \in DOMAIN ren THEN ren[i] ELSE i

\* GetTreat of an assigned id or of the empty id
Pair_GetTreat(i) ==
    \E m \in SeqCall(Store, "Get", i, NoTreat) :
        PairStep("Get", pair.ren, m, FsCall(docs, "Get", Ren(pair.ren, i), NoTreat))

\* DeleteTreat of an id that exists
Pair_DeleteTreat(i) ==
    /\ i \in DOMAIN treats
    /\ Ren(pair.ren, i) \in DOMAIN docs
    /\ \E m \in SeqCall(Store, "Delete", i, NoTreat) :
            PairStep("Delete", pair.ren, m,
                     FsCall(docs, "Delete", Ren(pair.ren, i), NoTreat))

\* UpdateTreat of a new object with the fields t under an id that exists
Pair_UpdateTreat(i, t) ==
    /\ i \in DOMAIN treats
    /\ Ren(pair.ren, i) \in DOMAIN docs
    /\ t.Title \notin OtherTitles(Ren(pair.ren, i))
    /\ \E m \in SeqCall(Store, "Update", EmptyStr, WithID(t, i)) :
            PairStep("Update", pair.ren, m,
                     FsCall(docs, "Update", EmptyStr, WithID(t, Ren(pair.ren, i))))

\* ListTreats
Pair_ListTreats ==
    \E m \in SeqCall(Store, "List", EmptyStr, NoTreat) :
        PairStep("List", pair.ren, m, FsCall(docs, "List", EmptyStr, NoTreat))

InitPair ==
    /\ DB = "both"
    /\ newMemoryDB
    /\ newFirestoreDB
    /\ ret = Ret("New", NoArg, NoArg, NoErr)
    /\ added = <<>>
    /\ deleted = {}
    /\ hist = FALSE
    /\ closed = FALSE
    /\ NoSteps

NextPair ==
    \/ \E t \in AddInputs, d \in IDs : Pair_AddTreat(t, d)
    \/ \E a \in DOMAIN heap, t \in AddInputs, d \in IDs : Pair_AddTreatAgain(a, t, d)
    \/ \E i \in DOMAIN pair.ren \cup {EmptyStr} : Pair_GetTreat(i)
    \/ \E i \in IDs : Pair_DeleteTreat(i)
    \/ \E i \in IDs, t \in Inputs : Pair_UpdateTreat(i, t)
    \/ Pair_ListTreats

SpecPair == InitPair /\ [][NextPair]_vars


\* C1: on memoryDB the n-th AddTreat returns the decimal string of n, so the
\* ids returned are strictly increasing as integers and pairwise distinct,
\* whatever GetTreat, UpdateTreat, DeleteTreat and ListTreats calls come in
\* between.
C1_AddReturnsCounter ==
    DB = "memory" =>
        \A n \in 1..Len(added) :
            /\ added[n] = FormatInt(n)
            /\ ParseInt(added[n]) = n
            /\ \A m \in 1..Len(added) :
                    /\ m < n => ParseInt(added[m]) < ParseInt(added[n])
                    /\ m # n => added[m] # added[n]

\* the second AddTreat has returned after the first record was deleted
C1_Witness ==
    /\ DB = "memory"
    /\ ret.op = "Add"
    /\ ret.err = NoErr
    /\ Len(added) = 2
    /\ FormatInt(1) \notin DOMAIN treats

\* C2: on memoryDB the id AddTreat returns is not a key of the map before the
\* call, so the call replaces no record and the map grows by exactly one.
C2_AddIsFresh ==
    [][(DB = "memory" /\ ret'.op = "Add" /\ ret'.err = NoErr) =>
        /\ ret'.out \notin DOMAIN treats
        /\ Cardinality(DOMAIN treats') = Cardinality(DOMAIN treats) + 1]_vars

\* C4: right after AddTreat(r) has returned the id i, GetTreat(i) returns a
\* record with the descriptive fields of r and the ID i, whatever ID r had.
C4_GetAfterAdd ==
    (ret.op = "Add" /\ ret.err = NoErr) =>
        /\ GetResult(ret.out).err = NoErr
        /\ SameFields(GetResult(ret.out).out, ret.arg)
        /\ GetResult(ret.out).out.ID = ret.out

\* AddTreat has returned "2" for a record that came in with the ID "1"
C4_Witness ==
    /\ DB = "memory"
    /\ ret.op = "Add"
    /\ ret.err = NoErr
    /\ ret.arg.ID = FormatInt(1)
    /\ ret.out = FormatInt(2)


\* C3: a ListTreats call that reaches its backend returns no error and
\* exactly the stored records, each entry once, in non-decreasing byte-wise
\* order of Title (the empty sequence on a store without records); on
\* memoryDB, after Add(Zeta) and Add(Alpha) of two records it returns
\* [Alpha with ID "2", Zeta with ID "1"].
C3_ListSorted ==
    /\ (ret.op = "List" /\ ret.up) =>
            /\ ret.err = NoErr
            /\ IsListOf(ret.out, Keys)
            /\ SortedByTitle(ret.out)
            /\ Keys = {} => ret.out = <<>>
    /\ ( /\ DB = "memory"
         /\ DOMAIN treats = {FormatInt(1), FormatInt(2)}
         /\ Stored(FormatInt(1)) = WithID(ZetaRec, FormatInt(1))
         /\ Stored(FormatInt(2)) = WithID(AlphaRec, FormatInt(2)) ) =>
            \A r \in ListResults :
                /\ r.err = NoErr
                /\ r.out = <<WithID(AlphaRec, FormatInt(2)), WithID(ZetaRec, FormatInt(1))>>

\* ListTreats has returned [Alpha "2", Zeta "1"] after the two AddTreat calls
C3_Witness ==
    /\ DB = "memory"
    /\ ret.op = "List"
    /\ added = <<FormatInt(1), FormatInt(2)>>
    /\ treats[FormatInt(1)] # treats[FormatInt(2)]
    /\ ret.out = <<WithID(AlphaRec, FormatInt(2)), WithID(ZetaRec, FormatInt(1))>>

\* C5: on memoryDB, UpdateTreat of a record whose (non-empty) ID is no key of
\* the map fails with NotFound and leaves the map and the id counter unchanged.
C5_UpdateMissingFails ==
    [][( /\ DB = "memory"
         /\ ~treatsNil
         /\ ret'.op = "Update"
         /\ ret'.arg.ID # EmptyStr
         /\ ret'.arg.ID \notin DOMAIN treats ) =>
            /\ IsNotFound(ret'.err)
            /\ UNCHANGED <<treats, nextID>>]_vars

C7_DeleteErrors ==
    [][(DB = "memory" /\ ret'.op = "Delete") =>
        /\ ret'.arg = EmptyStr =>
                /\ IsInvalidArgument(ret'.err)
                /\ ~IsNotFound(ret'.err)
                /\ UNCHANGED <<treats, treatsNil, heap, nextID>>
        /\ (ret'.arg # EmptyStr /\ ret'.arg \notin DOMAIN treats) =>
                /\ IsNotFound(ret'.err)
                /\ ~IsInvalidArgument(ret'.err)
                /\ UNCHANGED <<treats, treatsNil, heap, nextID>>]_vars

\* DeleteTreat("1") has failed with NotFound on the empty store
C7_Witness ==
    /\ DB = "memory"
    /\ ret.op = "Delete"
    /\ ret.arg = FormatInt(1)
    /\ IsNotFound(ret.err)
    /\ treats = EmptyMap
    /\ ~treatsNil
    /\ nextID = 1

C9_DeletionPermanent ==
    DB = "memory" =>
        \A i \in deleted :
            /\ i \notin DOMAIN treats
            /\ IsNotFound(memoryDB_GetTreatResult(i).err)

\* C10: on both backends, right after a successful UpdateTreat(r) GetTreat(r.ID)
\* returns exactly r; the records stored under other ids and the id counter
\* of memoryDB are unchanged.
C10_GetAfterUpdate ==
    [][\A r \in Inputs :
        (ret'.op = "Update" /\ ret'.arg = r /\ ret'.err = NoErr) =>
            /\ GetResult(r.ID)'.err = NoErr
            /\ GetResult(r.ID)'.out = r
            /\ Keys' = Keys \cup {r.ID}
            /\ \A k \in Keys \ {r.ID} : Stored(k)' = Stored(k)
            /\ nextID' = nextID]_vars

\* UpdateTreat has succeeded on a store that holds another record
C10_Witness ==
    /\ DB = "memory"
    /\ ret.op = "Update"
    /\ ret.err = NoErr
    /\ Keys \ {ret.arg.ID} # {}

\* C12: on memoryDB the stored records change only through Add, Update, Delete
\* and Close; a caller's write to a record object it passed in or was handed
\* back changes the result of no later GetTreat or ListTreats.
C12_SingleSourceOfTruth ==
    [][DB = "memory" =>
        /\ (Keys' # Keys \/ \E k \in Keys \cap Keys' : Stored(k)' # Stored(k)) =>
                ret'.op \in {"Add", "Update", "Delete", "Close"}
        /\ ret'.op = "Write" =>
                /\ \A i \in CallerIDs : GetResult(i)' = GetResult(i)
                /\ ListResults' = ListResults]_vars

\* C13: on memoryDB every stored record has a non-empty ID that equals its
\* key, and no step changes the ID of the record under a key.
C13_IdIsKey ==
    [][DB = "memory" =>
        /\ \A k \in Keys' :
                k # EmptyStr /\ Stored(k)'.ID # EmptyStr /\ Stored(k)'.ID = k
        /\ \A k \in Keys \cap Keys' : Stored(k)'.ID = Stored(k).ID]_vars

\* C14: on memoryDB ListTreats has one possible result in every state, so two
\* calls on an unchanged store, and two stores that went through the same
\* calls, list the records in the same order, duplicate titles included.
C14_ListDeterministic ==
    DB = "memory" => \A r1 \in ListResults, r2 \in ListResults : r1 = r2

\* C15: on memoryDB, once Close has been called, ListTreats returns the empty
\* sequence and no error, whatever was stored before.
C15_ListAfterClose ==
    (DB = "memory" /\ closed) =>
        /\ \A r \in ListResults : r.out = <<>> /\ r.err = NoErr
        /\ ret.op = "List" => ret.out = <<>> /\ ret.err = NoErr

\* ListTreats has been called after the Close of a store that held records
C15_Witness ==
    /\ DB = "memory"
    /\ closed
    /\ added # <<>>
    /\ ret.op = "List"

\* C16: on memoryDB, after Close, no call of Get, Add, Update, Delete or List
\* panics: each returns an error or the result of an empty store.
C16_NoPanicAfterClose ==
    (DB = "memory" /\ closed /\ ret.op \in {"Get", "Add", "Update", "Delete", "List"}) =>
        /\ ret.err # PanicNilMap
        /\ \/ ret.err # NoErr
           \/ ret.op \in {"Add", "Update"}
           \/ ret.op = "List" /\ ret.out = <<>>

\* C17: on firestoreDB, UpdateTreat(r) with a non-empty ID that reaches the
\* backend succeeds whether or not a document has the ID: afterwards the
\* document r.ID is exactly r and the other documents are as before.
C17_UpdateIsUpsert ==
    [][\A r \in Inputs :
        (DB = "firestore" /\ ret'.op = "Update" /\ ret'.arg = r
                /\ ret'.up /\ r.ID # EmptyStr) =>
            /\ ret'.err = NoErr
            /\ docs' = Put(docs, r.ID, r)]_vars

\* UpdateTreat has succeeded on firestoreDB next to another document
C17_Witness ==
    /\ DB = "firestore"
    /\ ret.op = "Update"
    /\ ret.err = NoErr
    /\ docs[ret.arg.ID] = ret.arg
    /\ DOMAIN docs # {ret.arg.ID}

\* C18: on firestoreDB, DeleteTreat(i) of a non-empty id no document has,
\* the backend being reached, returns no error and leaves the documents as
\* they are; DeleteTreat returns an error only when the client's Delete does.
C18_DeleteMissingSucceeds ==
    [][\A i \in CallerIDs :
        (DB = "firestore" /\ ret'.op = "Delete" /\ ret'.arg = i) =>
            /\ (i # EmptyStr /\ i \notin DOMAIN docs /\ ret'.up) =>
                    ret'.err = NoErr /\ docs' = docs
            /\ ret'.err # NoErr => DocDelete(docs, i, ret'.up).status # OK]_vars

\* DeleteTreat has succeeded on firestoreDB and no document is stored
C18_Witness ==
    /\ DB = "firestore"
    /\ ret.op = "Delete"
    /\ ret.arg # EmptyStr
    /\ ret.err = NoErr
    /\ docs = EmptyMap

\* C20: the cursor of a ListTreats call is open while the call runs and
\* stopped once it has returned, on both exits: after the cursor is exhausted
\* the call returns all documents of the query in cursor order and no error,
\* after a cursor error it returns the error and an empty result.
C20_CursorStopped ==
    /\ iter.pc \in {"loop", "return"} => iter.open
    /\ iter.pc = "returned" =>
            /\ ~iter.open
            /\ iter.err = NoErr => iter.out = iter.snap
            /\ iter.err # NoErr => iter.out = <<>>

\* ListTreats has returned an error after its cursor had delivered a document
C20_Witness ==
    /\ iter.pc = "returned"
    /\ iter.err # NoErr
    /\ iter.acc # <<>>
    /\ Len(iter.snap) > 1

\* what the call of goroutine p, now at its return, has made of the store
\* and returns
Outcome(p) ==
    [store |-> Store, out |-> thr[p].out, rid |-> thr[p].rid, err |-> thr[p].err]

\* the goroutines inside a critical section
InCritical == {p \in Procs : thr[p].held}

\* C11: on memoryDB, with goroutines calling concurrently, at most one is
\* between Lock and Unlock and it is the holder of mu; the ids the Adds
\* returned are pairwise distinct and the record of an Add is stored under
\* its id when the Add returns; every call, at its return, has taken the
\* store from what it was when the call acquired mu to what the call made
\* alone makes of it, with that call's result; and the store changes only
\* in steps of the holder of mu.
C11_Linearizable ==
    [][/\ Cardinality(InCritical') <= 1
       /\ \A p \in Procs : thr'[p].held <=> mu' = p
       /\ \A i \in 1..Len(added'), j \in 1..Len(added') :
                i # j => added'[i] # added'[j]
       /\ \A p \in Procs : thr'[p].pc = "return" =>
            /\ Outcome(p)' \in SeqCall(IF thr'[p].held THEN entry' ELSE Store',
                                       thr'[p].op, thr'[p].id, thr'[p].arg)
            /\ (thr'[p].op = "Add" /\ thr'[p].err = NoErr) =>
                    /\ thr'[p].rid \in DOMAIN treats'
                    /\ heap'[treats'[thr'[p].rid]] = WithID(thr'[p].arg, thr'[p].rid)
       /\ Store' # Store => \E p \in Procs : mu = p /\ thr'[p] # thr[p]]_vars

\* the second of two Adds is at its return while another goroutine is blocked
\* in Lock
C11_Witness ==
    /\ DB = "memory"
    /\ Len(added) = 2
    /\ \E p \in Procs : thr[p].pc = "return" /\ thr[p].op = "Add"
    /\ \E p \in Procs : thr[p].pc = "lock"

\* C19: on memoryDB mu is locked only while its holder is inside a method
\* body, on every return path, and under fair scheduling every goroutine
\* that has started a call is eventually back out of it.
C19_EveryCallReturns ==
    /\ [](mu # 0 => thr[mu].held)
    /\ \A p \in Procs : (thr[p].pc # "idle") ~> (thr[p].pc = "idle")

\* a goroutine is blocked in Lock while the holder of mu is at the return of
\* DeleteTreat on its NotFound path
C19_Witness ==
    \E p \in Procs, q \in Procs :
        /\ thr[p].pc = "lock"
        /\ mu = q
        /\ thr[q].pc = "return"
        /\ thr[q].err = ErrMemDeleteMissing

\* the records l memoryDB returned, with the ids firestoreDB assigned
Renamed(l) == [n \in 1..Len(l) |-> WithID(l[n], Ren(pair.ren, l[n].ID))]

\* C21: a memoryDB and a firestoreDB driven through the same calls of Add,
\* Get, List and Update/Delete of existing ids, with distinct titles and the
\* backend reachable, agree on every call: both succeed or both fail, and on
\* success they return the same records in the same order and corresponding
\* ids, the ids of one renamed one-to-one to the ids of the other.
C21_Interchangeable ==
    DB = "both" =>
        /\ \A i \in DOMAIN pair.ren, j \in DOMAIN pair.ren :
                pair.ren[i] = pair.ren[j] => i = j
        /\ (pair.m.err = NoErr) <=> (pair.f.err = NoErr)
        /\ pair.m.err = NoErr =>
                /\ Renamed(pair.m.out) = pair.f.out
                /\ Ren(pair.ren, pair.m.rid) = pair.f.rid

====
